---- MODULE Spec2Model ----
(***************************************************************************)
(* The two idtimestamp command-line scripts of forestrie/canopy:           *)
(*   scripts/idtimestamp-unixms.py   (function unixms, prints Unix ms)     *)
(*   scripts/idtimestamp_to_utc.py   (function idtimestamp_to_datetime,    *)
(*                                    prints Unix ms, seconds and UTC)     *)
(* A string is a sequence of one-character strings.  A Python int is       *)
(* unbounded; it is held as two limbs, hi * 2^20 + lo with 0 <= lo < 2^20, *)
(* so that values around 2^40 stay inside 32-bit integer arithmetic.       *)
(***************************************************************************)
EXTENDS Integers, Sequences, FiniteSets, TLC

VARIABLES argv,     \* sys.argv[1:], the same command line given to both scripts
          pcU,      \* idtimestamp-unixms.py: position of the process
          retU,     \* outcome of the call unixms(*sys.argv[1:])
          outU,     \* its standard output, a sequence of lines
          errU,     \* its standard error
          statusU,  \* its exit status
          pcT,      \* idtimestamp_to_utc.py: position of the process
          retT,     \* outcome of the call idtimestamp_to_datetime(id_hex)
          outT,     \* its standard output
          errT,     \* its standard error
          statusT   \* its exit status

vars == <<argv, pcU, retU, outU, errU, statusU, pcT, retT, outT, errT, statusT>>

---------------------------------------------------------------------------
(* Bounds of the inputs.                                                   *)

MinFill == 10
MaxFill == 16

---------------------------------------------------------------------------
(* Characters.                                                             *)

DecDigits == {"0", "1", "2", "3", "4", "5", "6", "7", "8", "9"}
HexDigits == DecDigits \cup {"a", "b", "c", "d", "e", "f", "A", "B", "C", "D", "E", "F"}
Whitespace == {" ", "\t", "\n", "\r"}
HexChars == <<"0", "1", "2", "3", "4", "5", "6", "7", "8", "9", "a", "b", "c", "d", "e", "f">>

HexVal(c) ==
  CASE c = "0" -> 0 [] c = "1" -> 1 [] c = "2" -> 2 [] c = "3" -> 3
    [] c = "4" -> 4 [] c = "5" -> 5 [] c = "6" -> 6 [] c = "7" -> 7
    [] c = "8" -> 8 [] c = "9" -> 9
    [] c \in {"a", "A"} -> 10 [] c \in {"b", "B"} -> 11 [] c \in {"c", "C"} -> 12
    [] c \in {"d", "D"} -> 13 [] c \in {"e", "E"} -> 14 [] c \in {"f", "F"} -> 15

---------------------------------------------------------------------------
(* Python ints as two limbs.                                               *)

Limb == 2^20

Norm(h, l) == [hi |-> h + (l \div Limb), lo |-> l % Limb]

IntObj(n) == Norm(0, n)

BigAdd(a, b) == Norm(a.hi + b.hi, a.lo + b.lo)

\* k * a for a small int k
BigScale(k, a) == Norm(k * a.hi, k * a.lo)

\* divmod(a, d) for a small positive d (floor division, as Python's)
BigDivMod(a, d) ==
  LET rest == (a.hi % d) * Limb + a.lo
  IN  [q |-> [hi |-> a.hi \div d, lo |-> rest \div d], r |-> rest % d]

\* (2**40) - 1
Mask40 == [hi |-> Limb - 1, lo |-> Limb - 1]

---------------------------------------------------------------------------
(* Python builtins the scripts call.                                       *)

\* str.startswith(prefix)
StartsWith(s, prefix) ==
  /\ Len(s) >= Len(prefix)
  /\ \A i \in 1..Len(prefix) : s[i] = prefix[i]

\* s[n:]
SliceFrom(s, n) == SubSeq(s, n + 1, Len(s))

\* s[:n]
SliceTo(s, n) == SubSeq(s, 1, IF n < Len(s) THEN n ELSE Len(s))

RECURSIVE LStrip(_)
LStrip(s) == IF Len(s) > 0 /\ s[1] \in Whitespace THEN LStrip(Tail(s)) ELSE s

RECURSIVE RStrip(_)
RStrip(s) ==
  IF Len(s) > 0 /\ s[Len(s)] \in Whitespace THEN RStrip(SubSeq(s, 1, Len(s) - 1)) ELSE s

RECURSIVE DecFold(_, _)
DecFold(d, acc) ==
  IF d = <<>> THEN acc
  ELSE IF d[1] = "_" THEN DecFold(Tail(d), acc)
  ELSE DecFold(Tail(d), 10 * acc + HexVal(d[1]))

\* int(s): surrounding whitespace stripped, an optional sign, then decimal
\* digits that single underscores may separate; anything else is a ValueError.
PyInt10(s) ==
  LET t == RStrip(LStrip(s))
      signed == Len(t) > 0 /\ t[1] \in {"+", "-"}
      d == IF signed THEN Tail(t) ELSE t
      wellformed ==
        /\ Len(d) > 0
        /\ d[1] \in DecDigits
        /\ d[Len(d)] \in DecDigits
        /\ \A i \in 1..Len(d) : d[i] \in DecDigits \cup {"_"}
        /\ \A i \in 1..(Len(d) - 1) : ~(d[i] = "_" /\ d[i + 1] = "_")
  IN  IF ~wellformed THEN [ok |-> FALSE, val |-> 0]
      ELSE [ok |-> TRUE,
            val |-> IF signed /\ t[1] = "-" THEN 0 - DecFold(d, 0) ELSE DecFold(d, 0)]

\* bytes.fromhex(s): ASCII whitespace between bytes is skipped, every byte is
\* two adjacent hex digits; pos is the 0-based position the ValueError reports.
RECURSIVE FromHexAt(_, _, _)
FromHexAt(s, i, acc) ==
  IF i > Len(s) THEN [ok |-> TRUE, bytes |-> acc, pos |-> 0]
  ELSE IF s[i] \in Whitespace THEN FromHexAt(s, i + 1, acc)
  ELSE IF s[i] \notin HexDigits THEN [ok |-> FALSE, bytes |-> <<>>, pos |-> i - 1]
  ELSE IF i + 1 > Len(s) \/ s[i + 1] \notin HexDigits
       THEN [ok |-> FALSE, bytes |-> <<>>, pos |-> i]
  ELSE FromHexAt(s, i + 2, Append(acc, 16 * HexVal(s[i]) + HexVal(s[i + 1])))

FromHex(s) == FromHexAt(s, 1, <<>>)

\* bytes.hex(): two lowercase hex digits per byte
BytesHex(b) ==
  [i \in 1..(2 * Len(b)) |->
     IF i % 2 = 1 THEN HexChars[(b[(i + 1) \div 2] \div 16) + 1]
     ELSE HexChars[(b[i \div 2] % 16) + 1]]

RECURSIVE HexFold(_, _)
HexFold(d, acc) ==
  IF d = <<>> THEN acc
  ELSE HexFold(Tail(d), Norm(16 * acc.hi, 16 * acc.lo + HexVal(d[1])))

\* int(s, 16) of the digits bytes.hex() produced; the empty string is a ValueError
PyInt16(s) ==
  IF Len(s) = 0 THEN [ok |-> FALSE, val |-> IntObj(0)]
  ELSE [ok |-> TRUE, val |-> HexFold(s, IntObj(0))]

\* b[:-3]
DropLast3(b) == SubSeq(b, 1, Len(b) - 3)

BigNeg(a) == Norm(0 - a.hi, 0 - a.lo)

\* decimal digits of an int >= 0
RECURSIVE BigDigits(_)
BigDigits(a) ==
  IF a.hi = 0 /\ a.lo < 10 THEN <<HexChars[a.lo + 1]>>
  ELSE LET dm == BigDivMod(a, 10) IN Append(BigDigits(dm.q), HexChars[dm.r + 1])

\* str(n) of an int, as print and an f-string render it
PyStr(a) == IF a.hi < 0 THEN <<"-">> \o BigDigits(BigNeg(a)) ELSE BigDigits(a)

Digits2(n) == <<HexChars[(n \div 10) + 1], HexChars[(n % 10) + 1]>>
Digits3(n) == <<HexChars[(n \div 100) + 1]>> \o Digits2(n % 100)

\* days since 1970-01-01 to the proleptic Gregorian date, as datetime does
CivilFromDays(days) ==
  LET z == days + 719468
      era == z \div 146097
      doe == z - era * 146097
      yoe == (doe - doe \div 1460 + doe \div 36524 - doe \div 146096) \div 365
      doy == doe - (365 * yoe + yoe \div 4 - yoe \div 100)
      mp == (5 * doy + 2) \div 153
      d == doy - (153 * mp + 2) \div 5 + 1
      m == IF mp < 10 THEN mp + 3 ELSE mp - 9
  IN  [year |-> yoe + era * 400 + (IF m <= 2 THEN 1 ELSE 0), month |-> m, day |-> d]

---------------------------------------------------------------------------
(* Outcomes of a call: a returned value or a raised exception.             *)

MsgLength == "idtimestamp must be 16 or 18 hex chars, got"
MsgPayload == "idtimestamp payload length must be 16 hex chars after epoch strip, got"
MsgShort == "idtimestamp payload too short to strip sequence/generator bytes"
MsgFromHex == "non-hexadecimal number found in fromhex() arg at position"
MsgInt10 == "invalid literal for int() with base 10"
MsgInt16 == "invalid literal for int() with base 16"
MsgMissingArg == "unixms() missing 1 required positional argument: 'id_val'"
MsgTooManyArgs == "unixms() takes from 1 to 2 positional arguments but more were given"
MsgIntPlusStr == "unsupported operand type(s) for +: 'int' and 'str'"
MsgOutOfRange == "year is out of range"

NotCalled == [kind |-> "none", exc |-> "", msg |-> "", n |-> 0, value |-> <<>>]
Return(v) == [kind |-> "return", exc |-> "", msg |-> "", n |-> 0, value |-> v]
Raise(e, m, k) == [kind |-> "raise", exc |-> e, msg |-> m, n |-> k, value |-> <<>>]

---------------------------------------------------------------------------
(* scripts/idtimestamp-unixms.py: unixms(id_val, epoch=1).                 *)
(* The epoch parameter is whatever object the caller passed: the int 1 by  *)
(* default, or the str that sys.argv holds.                                *)

IntEpoch(n) == [type |-> "int", int |-> n, str |-> <<>>]
StrEpoch(s) == [type |-> "str", int |-> 0, str |-> s]
DefaultEpoch == IntEpoch(1)

\* unixms_strip without the prefix removal
unixms_strip_keeps_prefix(id_val) == id_val

\* lines 18-19
unixms_strip(id_val) ==
  IF StartsWith(id_val, <<"0", "x">>) THEN SliceFrom(id_val, 2) ELSE id_val

\* unixms_bad_length with only the lower limit checked
unixms_bad_length_lower_only(id_val) == Len(id_val) < 16

\* line 21: len(id_val) not in (16, 18)
unixms_bad_length(id_val) == Len(id_val) \notin {16, 18}

\* line 25: int(id_val[:2])
unixms_parse_epoch(id_val) == PyInt10(SliceTo(id_val, 2))

\* line 45, right operand and sum: epoch * ((2**40) - 1) added to the time
\* component.  A str epoch is repeated 2^40 - 1 times: the allocation of a
\* non-empty repetition fails (MemoryError) or, on a host that can hold it,
\* succeeds and the int + str addition raises TypeError.
unixms_sum(time_component, epoch) ==
  IF epoch.type = "int"
  THEN {Return(BigAdd(time_component, BigScale(epoch.int, Mask40)))}
  ELSE IF Len(epoch.str) = 0 THEN {Raise("TypeError", MsgIntPlusStr, 0)}
  ELSE {Raise("MemoryError", "", 0), Raise("TypeError", MsgIntPlusStr, 0)}

\* lines 33-46
unixms_payload(id_val, epoch) ==
  LET raw_bytes == FromHex(id_val)
  IN  IF ~raw_bytes.ok THEN {Raise("ValueError", MsgFromHex, raw_bytes.pos)}
      ELSE IF Len(raw_bytes.bytes) < 3 THEN {Raise("ValueError", MsgShort, 0)}
      ELSE LET raw_bytes2 == FromHex(id_val)   \* lines 39-43 repeat lines 33-37
           IN  IF ~raw_bytes2.ok THEN {Raise("ValueError", MsgFromHex, raw_bytes2.pos)}
               ELSE IF Len(raw_bytes2.bytes) < 3 THEN {Raise("ValueError", MsgShort, 0)}
               ELSE LET time_component == PyInt16(BytesHex(DropLast3(raw_bytes2.bytes)))
                    IN  IF ~time_component.ok THEN {Raise("ValueError", MsgInt16, 0)}
                        ELSE unixms_sum(time_component.val, epoch)

\* lines 7-46: the set of outcomes the call can have
unixms(id_val0, epoch0) ==
  LET id_val == unixms_strip(id_val0)
  IN  IF unixms_bad_length(id_val) THEN {Raise("ValueError", MsgLength, Len(id_val))}
      ELSE IF Len(id_val) = 18 /\ ~unixms_parse_epoch(id_val).ok
           THEN {Raise("ValueError", MsgInt10, 0)}
      ELSE LET epoch == IF Len(id_val) = 18
                        THEN IntEpoch(unixms_parse_epoch(id_val).val) ELSE epoch0
               payload == IF Len(id_val) = 18 THEN SliceFrom(id_val, 2) ELSE id_val
           IN  IF Len(payload) # 16 THEN {Raise("ValueError", MsgPayload, Len(payload))}
               ELSE unixms_payload(payload, epoch)

\* line 50: unixms(*sys.argv[1:]), every argument a str
unixms_call(args) ==
  IF Len(args) = 0 THEN {Raise("TypeError", MsgMissingArg, 0)}
  ELSE IF Len(args) > 2 THEN {Raise("TypeError", MsgTooManyArgs, Len(args))}
  ELSE IF Len(args) = 1 THEN unixms(args[1], DefaultEpoch)
  ELSE unixms(args[1], StrEpoch(args[2]))

---------------------------------------------------------------------------
(* scripts/idtimestamp_to_utc.py: idtimestamp_to_datetime(id_val).         *)

\* datetime.min and datetime.max as days from 1970-01-01 (years 1 to 9999)
MinDay == -719162
MaxDay == 2932896

\* line 39: seconds = unixms / 1000.0, the float held as whole seconds
\* (floor) and milliseconds; exact for |unixms| < 2^53
to_utc_seconds(u) ==
  LET dm == BigDivMod(u, 1000) IN [sec |-> dm.q, ms |-> dm.r]

\* line 40: datetime.datetime.utcfromtimestamp(seconds); a year outside
\* 1..9999 raises.  The datetime is held to the whole second: its microsecond
\* is the float's fraction rounded, which lies within a few microseconds of
\* the millisecond and is not modelled.
UtcFromTimestamp(seconds) ==
  LET a == BigDivMod(seconds.sec, 600)
      b == BigDivMod(a.q, 144)
      inrange == /\ b.q.hi \in -1..2
                 /\ (b.q.hi * Limb + b.q.lo) \in MinDay..MaxDay
      date == CivilFromDays(b.q.hi * Limb + b.q.lo)
      sod == b.r * 600 + a.r
  IN  IF ~inrange THEN [ok |-> FALSE, dt |-> <<>>]
      ELSE [ok |-> TRUE,
            dt |-> [year |-> date.year, month |-> date.month, day |-> date.day,
                    hour |-> sod \div 3600, minute |-> (sod \div 60) % 60,
                    second |-> sod % 60]]

\* lines 18-19
to_utc_strip(id_val) ==
  IF StartsWith(id_val, <<"0", "x">>) THEN SliceFrom(id_val, 2) ELSE id_val

\* line 21
to_utc_bad_length(id_val) == Len(id_val) \notin {16, 18}

\* to_utc_parse_epoch reading the two characters as hexadecimal
to_utc_parse_epoch_hex(id_val) ==
  LET e == SliceTo(id_val, 2)
  IN  IF \A i \in 1..Len(e) : e[i] \in HexDigits
      THEN [ok |-> TRUE, val |-> HexFold(e, IntObj(0)).lo]
      ELSE [ok |-> FALSE, val |-> 0]

\* line 26
to_utc_parse_epoch(id_val) == PyInt10(SliceTo(id_val, 2))

\* lines 38-40
to_utc_result(time_component, epoch) ==
  LET u == BigAdd(time_component, BigScale(epoch, Mask40))
      seconds == to_utc_seconds(u)
      dt == UtcFromTimestamp(seconds)
  IN  IF ~dt.ok THEN Raise("ValueError", MsgOutOfRange, 0)
      ELSE Return([dt |-> dt.dt, unixms |-> u, seconds |-> seconds])

\* lines 34-40
to_utc_payload(id_val, epoch) ==
  LET raw_bytes == FromHex(id_val)
  IN  IF ~raw_bytes.ok THEN Raise("ValueError", MsgFromHex, raw_bytes.pos)
      ELSE IF Len(raw_bytes.bytes) < 3 THEN Raise("ValueError", MsgShort, 0)
      ELSE LET time_component == PyInt16(BytesHex(DropLast3(raw_bytes.bytes)))
           IN  IF ~time_component.ok THEN Raise("ValueError", MsgInt16, 0)
               ELSE to_utc_result(time_component.val, epoch)

\* lines 7-40
idtimestamp_to_datetime(id_val0) ==
  LET id_val == to_utc_strip(id_val0)
  IN  IF to_utc_bad_length(id_val) THEN Raise("ValueError", MsgLength, Len(id_val))
      ELSE IF Len(id_val) = 18 /\ ~to_utc_parse_epoch(id_val).ok
           THEN Raise("ValueError", MsgInt10, 0)
      ELSE LET epoch == IF Len(id_val) = 18 THEN to_utc_parse_epoch(id_val).val ELSE 1
               payload == IF Len(id_val) = 18 THEN SliceFrom(id_val, 2) ELSE id_val
           IN  IF Len(payload) # 16 THEN Raise("ValueError", MsgPayload, Len(payload))
               ELSE to_utc_payload(payload, epoch)

---------------------------------------------------------------------------
(* The two scripts' __main__ blocks.                                       *)

Line(t, a) == [text |-> t, arg |-> a]

\* idtimestamp-unixms.py lines 49-50: print(unixms(*sys.argv[1:])); an
\* exception nothing catches ends the interpreter with a traceback on
\* standard error and status 1.
unixms_main ==
  /\ pcU = "start"
  /\ \E o \in unixms_call(argv) :
       /\ retU' = o
       /\ IF o.kind = "return"
          THEN /\ outU' = Append(outU, Line("", PyStr(o.value)))
               /\ errU' = errU
               /\ statusU' = "0"
          ELSE /\ outU' = outU
               /\ errU' = Append(errU, Line("Traceback (most recent call last):",
                                            <<o.exc, o.msg, o.n>>))
               /\ statusU' = "1"
  /\ pcU' = "exit"
  /\ UNCHANGED <<argv, pcT, retT, outT, errT, statusT>>

\* f"{seconds:.3f}"
Format3f(seconds) ==
  IF seconds.sec.hi >= 0 THEN BigDigits(seconds.sec) \o <<".">> \o Digits3(seconds.ms)
  ELSE IF seconds.ms = 0
       THEN <<"-">> \o BigDigits(BigNeg(seconds.sec)) \o <<".", "0", "0", "0">>
  ELSE <<"-">> \o BigDigits(BigNeg(BigAdd(seconds.sec, IntObj(1))))
         \o <<".">> \o Digits3(1000 - seconds.ms)

\* dt_utc.strftime("%Y-%m-%dT%H:%M:%S.%fZ"), up to the seconds: the six
\* digits of %f and the Z that follow are not modelled
Strftime(dt) ==
  BigDigits(IntObj(dt.year)) \o <<"-">> \o Digits2(dt.month) \o <<"-">> \o Digits2(dt.day)
    \o <<"T">> \o Digits2(dt.hour) \o <<":">> \o Digits2(dt.minute) \o <<":">>
    \o Digits2(dt.second)

\* idtimestamp_to_utc.py lines 44-46
to_utc_usage ==
  /\ pcT = "start"
  /\ Len(argv) + 1 < 2
  /\ errT' = Append(errT, Line("Usage: idtimestamp_to_utc.py <idtimestamp_hex>", <<>>))
  /\ statusT' = "1"
  /\ pcT' = "exit"
  /\ UNCHANGED <<argv, pcU, retU, outU, errU, statusU, retT, outT>>

\* to_utc_convert leaving with status 1 when the conversion fails
to_utc_convert_exit1 ==
  /\ pcT = "start"
  /\ ~(Len(argv) + 1 < 2)
  /\ LET id_hex == argv[1]
         r == idtimestamp_to_datetime(id_hex)
     IN  /\ retT' = r
         /\ IF r.kind = "raise"
            THEN /\ outT' = Append(outT, Line("Failed to convert idtimestamp",
                                              <<id_hex, r.msg, r.n>>))
                 /\ statusT' = "1"
                 /\ pcT' = "exit"
            ELSE /\ outT' = outT
                 /\ statusT' = statusT
                 /\ pcT' = "print_ms"
  /\ UNCHANGED <<argv, pcU, retU, outU, errU, statusU, errT>>

\* lines 48-53
to_utc_convert ==
  /\ pcT = "start"
  /\ ~(Len(argv) + 1 < 2)
  /\ LET id_hex == argv[1]
         r == idtimestamp_to_datetime(id_hex)
     IN  /\ retT' = r
         /\ IF r.kind = "raise"
            THEN /\ outT' = Append(outT, Line("Failed to convert idtimestamp",
                                              <<id_hex, r.msg, r.n>>))
                 /\ statusT' = "0"
                 /\ pcT' = "exit"
            ELSE /\ outT' = outT
                 /\ statusT' = statusT
                 /\ pcT' = "print_ms"
  /\ UNCHANGED <<argv, pcU, retU, outU, errU, statusU, errT>>

\* line 55
to_utc_print_ms ==
  /\ pcT = "print_ms"
  /\ outT' = Append(outT, Line("Last idtimestamp as Unix ms:", PyStr(retT.value.unixms)))
  /\ pcT' = "print_seconds"
  /\ UNCHANGED <<argv, pcU, retU, outU, errU, statusU, retT, errT, statusT>>

\* line 56
to_utc_print_seconds ==
  /\ pcT = "print_seconds"
  /\ outT' = Append(outT, Line("Last idtimestamp as Unix seconds:",
                               Format3f(retT.value.seconds)))
  /\ pcT' = "print_utc"
  /\ UNCHANGED <<argv, pcU, retU, outU, errU, statusU, retT, errT, statusT>>

\* line 57, then the interpreter ends with status 0
to_utc_print_utc ==
  /\ pcT = "print_utc"
  /\ outT' = Append(outT, Line("Last idtimestamp as UTC:", Strftime(retT.value.dt)))
  /\ pcT' = "exit"
  /\ statusT' = "0"
  /\ UNCHANGED <<argv, pcU, retU, outU, errU, statusU, retT, errT>>

---------------------------------------------------------------------------
(* Command lines.                                                          *)

Rep(c, n) == [i \in 1..n |-> c]

Prefixes == {<<>>, <<"0", "x">>, <<"0", "X">>}
HeadChars == {"0", "1", "9", "a", "-", " ", "Z"}
Heads == {<<a, b>> : a \in HeadChars, b \in HeadChars}
FillChars == {"0", "f", " ", "Z"}
Tails == {<<>>, <<" ", " ">>, <<"0", "0", "E", "8">>}
Bodies ==
  {<<>>} \cup {h \o Rep(f, n) \o t :
                 h \in Heads, f \in FillChars, n \in MinFill..MaxFill, t \in Tails}
Ids == {p \o b : p \in Prefixes, b \in Bodies}
EpochArgs == {<<"2">>}
Argvs ==
  {<<>>} \cup {<<id>> : id \in Ids} \cup {<<id, e>> : id \in Ids, e \in EpochArgs}
    \cup {<<id, e>> : id \in {Rep("0", 16), <<"0", "1">> \o Rep("0", 16)},
                      e \in {<<>>, <<"1", "0">>}}
    \cup {<<id, e, e>> : id \in {<<>>, Rep("0", 16)}, e \in EpochArgs}

Init ==
  /\ argv \in Argvs
  /\ pcU = "start" /\ retU = NotCalled /\ outU = <<>> /\ errU = <<>> /\ statusU = "running"
  /\ pcT = "start" /\ retT = NotCalled /\ outT = <<>> /\ errT = <<>> /\ statusT = "running"

Next ==
  \/ unixms_main
  \/ to_utc_usage
  \/ to_utc_convert
  \/ to_utc_print_ms
  \/ to_utc_print_seconds
  \/ to_utc_print_utc

Spec == Init /\ [][Next]_vars

---------------------------------------------------------------------------
(* Vocabulary of the properties, stated on the command line itself.        *)

AllIn(s, S) == \A i \in 1..Len(s) : s[i] \in S

\* the argument with one leading lowercase "0x" removed
Stripped(s) ==
  IF Len(s) >= 2 /\ s[1] = "0" /\ s[2] = "x" THEN SubSeq(s, 3, Len(s)) ELSE s

LengthOk(s) == Len(Stripped(s)) = 16 \/ Len(Stripped(s)) = 18

\* the last 16 characters of a stripped argument of length 16 or 18
PayloadOf(s) == SubSeq(Stripped(s), Len(Stripped(s)) - 15, Len(Stripped(s)))

\* the two selector characters of a stripped argument of length 18
SelectorOf(s) == SubSeq(Stripped(s), 1, 2)

\* big-endian value of five hex digits
Hex5(d) ==
  65536 * HexVal(d[1]) + 4096 * HexVal(d[2]) + 256 * HexVal(d[3])
    + 16 * HexVal(d[4]) + HexVal(d[5])

\* base-10 value of a text of one or two decimal digits
Dec2(d) == IF Len(d) = 1 THEN HexVal(d[1]) ELSE 10 * HexVal(d[1]) + HexVal(d[2])

\* (first ten hex digits of the payload) + selector * (2^40 - 1), in limbs
Expected(payload, selector) ==
  LET h == Hex5(SubSeq(payload, 1, 5)) + selector * Limb
      l == Hex5(SubSeq(payload, 6, 10)) - selector
  IN  IF l >= 0 THEN [hi |-> h, lo |-> l] ELSE [hi |-> h - 1, lo |-> l + Limb]

OneArg == Len(argv) = 1
CalledU == pcU = "exit"
CalledT == retT.kind # "none"

SuccessTexts ==
  <<"Last idtimestamp as Unix ms:", "Last idtimestamp as Unix seconds:",
    "Last idtimestamp as UTC:">>
Texts(out) == [i \in 1..Len(out) |-> out[i].text]

---------------------------------------------------------------------------
(* Properties.                                                             *)

\* C1: every accepted input decodes, in both scripts, to the value of the
\* first ten hex characters of the 16-character payload plus selector *
\* (2^40 - 1), the selector being 1 for the 16-character form and the base-10
\* value of the two leading decimal digits for the 18-character form.
Claim_C1 ==
  (/\ OneArg
   /\ LengthOk(argv[1])
   /\ AllIn(SubSeq(PayloadOf(argv[1]), 1, 10), HexDigits)
   /\ Len(Stripped(argv[1])) = 18 => AllIn(SelectorOf(argv[1]), DecDigits))
  => LET selector == IF Len(Stripped(argv[1])) = 16 THEN 1 ELSE Dec2(SelectorOf(argv[1]))
         expected == Expected(PayloadOf(argv[1]), selector)
     IN  /\ (CalledU /\ retU.kind = "return") => retU.value = expected
         /\ (CalledT /\ retT.kind = "return") => retT.value.unixms = expected

\* C2: an argument that is, after an optional "0x", exactly 16 or 18 hex
\* digits is always decoded: neither script raises on it.
Claim_C2 ==
  (OneArg /\ LengthOk(argv[1]) /\ AllIn(Stripped(argv[1]), HexDigits))
  => /\ CalledU => retU.kind = "return"
     /\ CalledT => retT.kind = "return"

\* C3: an argument whose length after removal of one leading "0x" is neither
\* 16 nor 18 is rejected by both scripts with the invalid-length error that
\* reports that length, whatever its characters are (no epoch parse or hex
\* decode error can come first).
Thm_C3 ==
  (OneArg /\ ~LengthOk(argv[1]))
  => /\ CalledU => retU = Raise("ValueError", MsgLength, Len(Stripped(argv[1])))
     /\ CalledT => retT = Raise("ValueError", MsgLength, Len(Stripped(argv[1])))

\* C3 witness: "0x" and 17 characters that are neither a selector nor hex,
\* rejected by both scripts with length 17.
Wit_C3 ==
  /\ OneArg /\ CalledU /\ CalledT
  /\ Len(argv[1]) = 19 /\ argv[1][1] = "0" /\ argv[1][2] = "x" /\ argv[1][3] = "Z"
  /\ retU.msg = MsgLength /\ retU.n = 17 /\ retT.msg = MsgLength /\ retT.n = 17

\* C4: an argument of accepted length whose 16-character payload holds a
\* character that is no hex digit (whitespace included) is rejected with the
\* malformed-hex error by both scripts.
Claim_C4 ==
  (/\ OneArg
   /\ LengthOk(argv[1])
   /\ Len(Stripped(argv[1])) = 18 => AllIn(SelectorOf(argv[1]), DecDigits)
   /\ ~AllIn(PayloadOf(argv[1]), HexDigits))
  => /\ CalledU => (retU.kind = "raise" /\ retU.msg = MsgFromHex)
     /\ CalledT => (retT.kind = "raise" /\ retT.msg = MsgFromHex)

\* C5: every value either script returns for a single argument is >= 0.
Claim_C5 ==
  OneArg
  => /\ (CalledU /\ retU.kind = "return") => retU.value.hi >= 0
     /\ (CalledT /\ retT.kind = "return") => retT.value.unixms.hi >= 0

\* C6: for p of 16 hex digits, both scripts decode "0x" + p, and to the same
\* outcome as p alone.
Thm_C6 ==
  (/\ OneArg /\ CalledU /\ CalledT
   /\ Len(argv[1]) = 18 /\ argv[1][1] = "0" /\ argv[1][2] = "x"
   /\ AllIn(SubSeq(argv[1], 3, 18), HexDigits))
  => LET p == SubSeq(argv[1], 3, 18)
     IN  /\ retU.kind = "return" /\ unixms(p, DefaultEpoch) = {retU}
         /\ retT.kind = "return" /\ idtimestamp_to_datetime(p) = retT

\* C6 witness: "0x19ffffffffffffff" decoded by both scripts.
Wit_C6 ==
  /\ OneArg /\ CalledU /\ pcT = "exit"
  /\ argv[1] = <<"0", "x", "1", "9">> \o Rep("f", 14)
  /\ retU.kind = "return" /\ retT.kind = "return"

\* C7: idtimestamp-unixms.py given a 16-hex-digit idtimestamp and the decimal
\* text of e as second argument prints time_component + e * (2^40 - 1).
Claim_C7 ==
  (/\ Len(argv) = 2 /\ CalledU
   /\ Len(Stripped(argv[1])) = 16 /\ AllIn(Stripped(argv[1]), HexDigits)
   /\ Len(argv[2]) \in 1..2 /\ AllIn(argv[2], DecDigits))
  => /\ retU.kind = "return"
     /\ outU = <<Line("", PyStr(Expected(PayloadOf(argv[1]), Dec2(argv[2]))))>>

\* C8: idtimestamp_to_utc.py ends with status 1 exactly when it was given no
\* argument, and then has written the usage line to standard error and has
\* called nothing; a failed conversion leaves exactly the one 'Failed to
\* convert' line on standard output and status 0; a successful one prints
\* the three lines in order and ends with status 0.
Thm_C8 ==
  /\ statusT = "1" <=> (pcT = "exit" /\ Len(argv) = 0)
  /\ (pcT = "exit" /\ Len(argv) = 0)
       => (Len(errT) = 1 /\ outT = <<>> /\ retT = NotCalled)
  /\ Len(argv) > 0 => errT = <<>>
  /\ retT.kind = "raise"
       => /\ pcT = "exit" /\ statusT = "0"
          /\ outT = <<Line("Failed to convert idtimestamp", <<argv[1], retT.msg, retT.n>>)>>
  /\ retT.kind = "return"
       => /\ Texts(outT) = SubSeq(SuccessTexts, 1, Len(outT))
          /\ pcT = "exit" => (Len(outT) = 3 /\ statusT = "0")
  /\ (pcT = "exit" /\ Len(argv) > 0) => retT.kind \in {"raise", "return"}

\* C8 witness: a malformed-hex argument, reported on standard output, status 0.
Wit_C8 ==
  /\ pcT = "exit" /\ Len(argv) = 1 /\ LengthOk(argv[1])
  /\ retT.kind = "raise" /\ retT.msg = MsgFromHex
  /\ Len(outT) = 1 /\ statusT = "0"

\* C9: on the same single argument the two scripts agree: both return, with
\* equal milliseconds, or both raise the same error.
Thm_C9 ==
  (OneArg /\ CalledU /\ CalledT)
  => /\ retT.kind = retU.kind
     /\ retU.kind = "return" => retT.value.unixms = retU.value
     /\ retU.kind = "raise"
          => (retT.exc = retU.exc /\ retT.msg = retU.msg /\ retT.n = retU.n)

\* C9 witness: an 18-character argument with selector "10" decoded by both.
Wit_C9 ==
  /\ OneArg /\ CalledU /\ CalledT
  /\ Len(argv[1]) = 18 /\ argv[1][1] = "1" /\ argv[1][2] = "0"
  /\ retU.kind = "return" /\ retT.kind = "return"

\* C10: no argument of accepted length makes either script raise the
\* payload-too-short error.
Claim_C10 ==
  (OneArg /\ LengthOk(argv[1]))
  => /\ CalledU => ~(retU.kind = "raise" /\ retU.msg = MsgShort)
     /\ CalledT => ~(retT.kind = "raise" /\ retT.msg = MsgShort)

====
